---------------------------- MODULE Spec2Model ----------------------------
(***************************************************************************)
(* Payment card validation of CampusSwap (utils/payment.js).               *)
(*                                                                         *)
(* A JavaScript string is a sequence of one-character strings.  A          *)
(* JavaScript number is a record [nan, v]: NaN compares false with         *)
(* everything, as in the language.  A field value handed to the            *)
(* validators is a JavaScript string, number or undefined.                 *)
(*                                                                         *)
(* The functions are pure: each specification draws their arguments in     *)
(* its initial states and its actions apply them.  SpecCard applies        *)
(* validateCardNumber and identifyCardType to card numbers, SpecFields     *)
(* validateCVV and validateExpirationDate to field values and clocks,      *)
(* Spec all five exported validators to whole payment forms.  SpecArgs     *)
(* hands validatePaymentInfo arguments that need not be strings,           *)
(* SpecFormat applies formatCardNumber and maskCardNumber, SpecTyping      *)
(* types a card number into the payment form digit by digit, and           *)
(* SpecCalls runs several invocations of validatePaymentInfo statement     *)
(* by statement, interleaved.                                              *)
(*                                                                         *)
(* The rest of the shop uses the validators: SpecCheckout submits the      *)
(* payment form and processes the order, SpecCart changes the quantities   *)
(* in the cart, SpecSession logs out and in again, SpecAuth interleaves    *)
(* the calls of AuthService and SpecRegister the register requests of the  *)
(* server.  An asynchronous function is one action per stretch between     *)
(* two awaits; a request to the server is answered by a later action.      *)
(***************************************************************************)
EXTENDS Integers, Sequences, FiniteSets, TLC

VARIABLES
    cardNumber,     \* argument cardNumber: its characters
    cvv,            \* argument cvv: its characters
    numberType,     \* what kind of JavaScript value cardNumber is
    cvvType,        \* what kind of JavaScript value cvv is
    cardType,       \* argument cardType of validateCVV: a network name
    expMonth,       \* argument month: string, number or undefined
    expYear,        \* argument year: string, number or undefined
    currentYear,    \* new Date().getFullYear()
    currentMonth,   \* new Date().getMonth() + 1
    call,           \* the function of payment.js that ran last
    ret,            \* what it returned
    edit,           \* how the user changed the card number after a check
    prev,           \* the card number and the verdict before that change
    hint,           \* the card-type indicator of the payment form
    frames,         \* the invocations of validatePaymentInfo in progress
    keyed,          \* the digits keyed into the card-number field so far
    cardName,       \* the cardholder-name field
    stage,          \* where handlePaymentSubmit and processOrder stand
    modal,          \* the payment modal: "open" or "closed"
    payButton,      \* the pay button: disabled or not, and its text
    notes,          \* the notifications shown so far
    paymentData,    \* what handlePaymentSubmit hands to onPaymentSuccess
    orders,         \* the orders the server has created
    cart,           \* the cart of the page: items with their quantities
    badge,          \* the count shown on the cart badge
    serverCart,     \* the cart the server keeps for the user
    atLogout,       \* the cart of the page when logout was last clicked
    token,          \* the auth token in localStorage, "" when there is none
    currentUser,    \* AuthService.currentUser, "" when it is null
    authCalls,      \* the calls of the services that await a response
    sent,           \* the requests sent to the server
    users,          \* the user table of the server
    regs            \* the register requests the server is handling

Payment == <<cardNumber, cvv, numberType, cvvType, cardType, expMonth, expYear,
             currentYear, currentMonth, call, ret, edit, prev, hint, frames>>

Form == <<keyed, cardName>>

Checkout == <<stage, modal, payButton, notes, paymentData, orders>>

Shop == <<cart, badge, serverCart, atLogout>>

Auth == <<token, currentUser, authCalls, sent>>

Db == <<users, regs>>

App == <<Form, Checkout, Shop, Auth, Db>>

vars == <<Payment, App>>

-----------------------------------------------------------------------------
(* Characters and strings *)

DigitChars == {"0", "1", "2", "3", "4", "5", "6", "7", "8", "9"}

DigitChar == <<"0", "1", "2", "3", "4", "5", "6", "7", "8", "9">>

\* parseInt(c, 10) of one digit character
DigitVal(c) == CHOOSE n \in 0..9 : DigitChar[n + 1] = c

\* a digit string written as a tuple of numbers
D(t) == [i \in 1..Len(t) |-> DigitChar[t[i] + 1]]

Take(s, n) == SubSeq(s, 1, IF n < Len(s) THEN n ELSE Len(s))

Drop(s, n) == SubSeq(s, n + 1, Len(s))

IsDigitString(s) == \A i \in 1..Len(s) : s[i] \in DigitChars

\* the characters the regular expression class \s matches, of those modelled
WhitespaceChars == {" "}

\* characters that are neither digits nor whitespace
OtherChars == {"a", "-"}

\* s.replace(/\D/g, '')
StripNonDigits(s) == SelectSeq(s, LAMBDA c : c \in DigitChars)

\* s.slice(-n)
SliceLast(s, n) == IF Len(s) <= n THEN s ELSE SubSeq(s, Len(s) - n + 1, Len(s))

-----------------------------------------------------------------------------
(* validateCardNumber *)

MinCardLen == 13

MaxCardLen == 19

\* digit *= 2; if (digit > 9) digit -= 9
LuhnDouble_NoFold(digit) == digit * 2

LuhnDouble(digit) == IF digit * 2 > 9 THEN digit * 2 - 9 ELSE digit * 2

\* the for loop: i runs from the last character down to the first
RECURSIVE LuhnLoop(_, _, _, _)
LuhnLoop(cleaned, i, sum, isEven) ==
    IF i < 1 THEN sum
    ELSE LET digit == IF isEven THEN LuhnDouble(DigitVal(cleaned[i]))
                      ELSE DigitVal(cleaned[i])
         IN  LuhnLoop(cleaned, i - 1, sum + digit, ~isEven)

validateCardNumber_Upto18(number) ==
    LET cleaned == StripNonDigits(number)
    IN  IF Len(cleaned) < MinCardLen \/ Len(cleaned) >= MaxCardLen THEN FALSE
        ELSE LuhnLoop(cleaned, Len(cleaned), 0, FALSE) % 10 = 0

validateCardNumber_DoublesLast(number) ==
    LET cleaned == StripNonDigits(number)
    IN  IF Len(cleaned) < MinCardLen \/ Len(cleaned) > MaxCardLen THEN FALSE
        ELSE LuhnLoop(cleaned, Len(cleaned), 0, TRUE) % 10 = 0

validateCardNumber(number) ==
    LET cleaned == StripNonDigits(number)
    IN  IF Len(cleaned) < MinCardLen \/ Len(cleaned) > MaxCardLen THEN FALSE
        ELSE LuhnLoop(cleaned, Len(cleaned), 0, FALSE) % 10 = 0

-----------------------------------------------------------------------------
(* identifyCardType *)

Networks == {"Visa", "Mastercard", "American Express", "Discover", "Unknown"}

StartsWith_WholeInput(s, pat) ==
    /\ Len(s) = Len(pat)
    /\ \A i \in 1..Len(pat) : s[i] \in pat[i]

\* /^.../.test(s) for a pattern that is a sequence of character classes
StartsWith(s, pat) ==
    /\ Len(s) >= Len(pat)
    /\ \A i \in 1..Len(pat) : s[i] \in pat[i]

Ch(lo, hi) == {DigitChar[n + 1] : n \in lo..hi}

AnyDigit == Ch(0, 9)

\* /^5[1-5]/ and /^2[2-7]/
MastercardPatterns_From50 ==
    {<<Ch(5, 5), Ch(0, 5)>>, <<Ch(2, 2), Ch(2, 7)>>}

MastercardPatterns ==
    {<<Ch(5, 5), Ch(1, 5)>>, <<Ch(2, 2), Ch(2, 7)>>}

\* /^6(?:011|5|4[4-9]|22(?:12[6-9]|1[3-9][0-9]|[2-8][0-9]{2}|9[01][0-9]|92[0-5]))/
DiscoverPatterns ==
    {<<Ch(6, 6), Ch(0, 0), Ch(1, 1), Ch(1, 1)>>,
     <<Ch(6, 6), Ch(5, 5)>>,
     <<Ch(6, 6), Ch(4, 4), Ch(4, 9)>>,
     <<Ch(6, 6), Ch(2, 2), Ch(2, 2), Ch(1, 1), Ch(2, 2), Ch(6, 9)>>,
     <<Ch(6, 6), Ch(2, 2), Ch(2, 2), Ch(1, 1), Ch(3, 9), AnyDigit>>,
     <<Ch(6, 6), Ch(2, 2), Ch(2, 2), Ch(2, 8), AnyDigit, AnyDigit>>,
     <<Ch(6, 6), Ch(2, 2), Ch(2, 2), Ch(9, 9), Ch(0, 1), AnyDigit>>,
     <<Ch(6, 6), Ch(2, 2), Ch(2, 2), Ch(9, 9), Ch(2, 2), Ch(0, 5)>>}

identifyCardType(number) ==
    LET cleaned == StripNonDigits(number)
    IN  IF StartsWith(cleaned, <<Ch(4, 4)>>) THEN "Visa"
        ELSE IF \E p \in MastercardPatterns : StartsWith(cleaned, p)
             THEN "Mastercard"
        ELSE IF StartsWith(cleaned, <<Ch(3, 3), {"4", "7"}>>)
             THEN "American Express"
        ELSE IF \E p \in DiscoverPatterns : StartsWith(cleaned, p)
             THEN "Discover"
        ELSE "Unknown"

-----------------------------------------------------------------------------
(* validateCVV *)

AmexCvvLen == 4

CvvLen == 3

validateCVV_SameLength(value, type) ==
    LET cleaned == StripNonDigits(value)
    IN  Len(cleaned) = CvvLen

validateCVV(value, type) ==
    LET cleaned == StripNonDigits(value)
    IN  IF type = "American Express" THEN Len(cleaned) = AmexCvvLen
        ELSE Len(cleaned) = CvvLen

-----------------------------------------------------------------------------
(* JavaScript values and numbers *)

JsString(s) == [t |-> "string", s |-> s, n |-> 0]

JsNumber(n) == [t |-> "number", s |-> <<>>, n |-> n]

JsUndefined == [t |-> "undefined", s |-> <<>>, n |-> 0]

Num(v) == [nan |-> FALSE, v |-> v]

NaN == [nan |-> TRUE, v |-> 0]

\* a < b, a > b, a === b and a + b on numbers: false, or NaN, when one is NaN
JsLt(a, b) == ~a.nan /\ ~b.nan /\ a.v < b.v

JsGt(a, b) == ~a.nan /\ ~b.nan /\ a.v > b.v

JsStrictEq(a, b) == ~a.nan /\ ~b.nan /\ a.v = b.v

JsAdd(a, b) == IF a.nan \/ b.nan THEN NaN ELSE Num(a.v + b.v)

RECURSIVE DecimalValue(_)
DecimalValue(digits) ==
    IF digits = <<>> THEN 0
    ELSE 10 * DecimalValue(SubSeq(digits, 1, Len(digits) - 1))
         + DigitVal(digits[Len(digits)])

RECURSIVE SkipWhitespace(_)
SkipWhitespace(s) ==
    IF s # <<>> /\ s[1] \in WhitespaceChars THEN SkipWhitespace(Tail(s)) ELSE s

RECURSIVE LeadingDigits(_)
LeadingDigits(s) ==
    IF s # <<>> /\ s[1] \in DigitChars THEN <<s[1]>> \o LeadingDigits(Tail(s))
    ELSE <<>>

\* parseInt(s, 10) of a string: leading whitespace is skipped, a sign is
\* read, then the longest run of digits; NaN when that run is empty
ParseIntString(s) ==
    LET trimmed == SkipWhitespace(s)
        negative == trimmed # <<>> /\ trimmed[1] = "-"
        body == IF negative THEN Tail(trimmed) ELSE trimmed
        Z == LeadingDigits(body)
    IN  IF Z = <<>> THEN NaN
        ELSE Num(IF negative THEN 0 - DecimalValue(Z) ELSE DecimalValue(Z))

\* parseInt(value, 10): the argument is converted to a string first, so an
\* integer number parses to itself and undefined ("undefined") to NaN
ParseInt(value) ==
    IF value.t = "number" THEN Num(value.n)
    ELSE IF value.t = "undefined" THEN NaN
    ELSE ParseIntString(value.s)

-----------------------------------------------------------------------------
(* validateExpirationDate *)

Century == 2000

MaxYearsAhead == 20

validateExpirationDate_ExpiresEarly(month, year) ==
    LET m == ParseInt(month)
        y == ParseInt(year)
        full == IF JsLt(y, Num(100)) THEN JsAdd(Num(Century), y) ELSE y
    IN  IF JsLt(m, Num(1)) \/ JsGt(m, Num(12)) THEN FALSE
        ELSE IF JsLt(full, Num(currentYear)) THEN FALSE
        ELSE IF JsStrictEq(full, Num(currentYear))
                /\ ~JsGt(m, Num(currentMonth)) THEN FALSE
        ELSE IF JsGt(full, Num(currentYear + MaxYearsAhead)) THEN FALSE
        ELSE TRUE

validateExpirationDate(month, year) ==
    LET thisYear == Num(currentYear)
        thisMonth == Num(currentMonth)
        m == ParseInt(month)
        y == ParseInt(year)
        fullExpYear == IF JsLt(y, Num(100)) THEN JsAdd(Num(Century), y) ELSE y
    IN  IF JsLt(m, Num(1)) \/ JsGt(m, Num(12)) THEN FALSE
        ELSE IF JsLt(fullExpYear, thisYear) THEN FALSE
        ELSE IF JsStrictEq(fullExpYear, thisYear) /\ JsLt(m, thisMonth)
             THEN FALSE
        ELSE IF JsGt(fullExpYear, JsAdd(thisYear, Num(MaxYearsAhead)))
             THEN FALSE
        ELSE TRUE

-----------------------------------------------------------------------------
(* formatCardNumber and maskCardNumber *)

\* s.trim(), for the whitespace modelled
RECURSIVE TrimEnd(_)
TrimEnd(s) ==
    IF s # <<>> /\ s[Len(s)] \in WhitespaceChars
    THEN TrimEnd(SubSeq(s, 1, Len(s) - 1)) ELSE s

Trim(s) == TrimEnd(SkipWhitespace(s))

\* cleaned.replace(/(\d{4})/g, '$1 ') on a digit string
RECURSIVE GroupsOf4(_)
GroupsOf4(cleaned) ==
    IF Len(cleaned) < 4 THEN cleaned
    ELSE Take(cleaned, 4) \o <<" ">> \o GroupsOf4(Drop(cleaned, 4))

Amex465_DropsRest(cleaned) ==
    IF Len(cleaned) < 15 THEN cleaned
    ELSE SubSeq(cleaned, 1, 4) \o <<" ">> \o SubSeq(cleaned, 5, 10) \o <<" ">>
         \o SubSeq(cleaned, 11, 15)

\* cleaned.replace(/(\d{4})(\d{6})(\d{5})/, '$1 $2 $3') on a digit string:
\* the first 15 digits are regrouped, whatever follows them is kept
Amex465(cleaned) ==
    IF Len(cleaned) < 15 THEN cleaned
    ELSE SubSeq(cleaned, 1, 4) \o <<" ">> \o SubSeq(cleaned, 5, 10) \o <<" ">>
         \o SubSeq(cleaned, 11, 15) \o Drop(cleaned, 15)

formatCardNumber_NoTrim(number) ==
    LET cleaned == StripNonDigits(number)
        type == identifyCardType(cleaned)
    IN  IF type = "American Express" THEN Amex465(cleaned)
        ELSE GroupsOf4(cleaned)

formatCardNumber(number) ==
    LET cleaned == StripNonDigits(number)
        type == identifyCardType(cleaned)
    IN  IF type = "American Express" THEN Amex465(cleaned)
        ELSE Trim(GroupsOf4(cleaned))

\* the bullet character of the masked prefix, written "*" here
Bullet == "*"

MaskPrefix ==
    <<Bullet, Bullet, Bullet, Bullet, " ", Bullet, Bullet, Bullet, Bullet, " ",
      Bullet, Bullet, Bullet, Bullet, " ">>

maskCardNumber_KeepsFirst4(number) ==
    LET cleaned == StripNonDigits(number)
        last4 == SliceLast(cleaned, 4)
    IN  Take(cleaned, 4) \o SubSeq(MaskPrefix, 5, Len(MaskPrefix)) \o last4

maskCardNumber(number) ==
    LET cleaned == StripNonDigits(number)
        last4 == SliceLast(cleaned, 4)
    IN  MaskPrefix \o last4

-----------------------------------------------------------------------------
(* validatePaymentInfo *)

InvalidCardMsg == "Invalid card number. Please check and try again."

InvalidCvvMsg(type) ==
    IF type = "American Express" THEN "Invalid CVV. 4 digits required."
    ELSE "Invalid CVV. 3 digits required."

InvalidExpMsg == "Card is expired or has invalid expiration date."

\* errors.push(msg) when the check failed
PushIf(errors, failed, msg) == IF failed THEN Append(errors, msg) ELSE errors

validatePaymentInfo_NoExpiry(number, code, month, year) ==
    LET type == identifyCardType(number)
        e1 == PushIf(<<>>, ~validateCardNumber(number), InvalidCardMsg)
        e2 == PushIf(e1, ~validateCVV(code, type), InvalidCvvMsg(type))
        e3 == PushIf(e2, ~validateExpirationDate(month, year), InvalidExpMsg)
    IN  [isValid |-> Len(e2) = 0,
         cardType |-> type,
         errors |-> e3,
         formattedNumber |-> formatCardNumber(number),
         maskedNumber |-> maskCardNumber(number)]

validatePaymentInfo_FirstErrorOnly(number, code, month, year) ==
    LET type == identifyCardType(number)
        e1 == PushIf(<<>>, ~validateCardNumber(number), InvalidCardMsg)
        e2 == PushIf(e1, e1 = <<>> /\ ~validateCVV(code, type),
                     InvalidCvvMsg(type))
        e3 == PushIf(e2, e2 = <<>> /\ ~validateExpirationDate(month, year),
                     InvalidExpMsg)
    IN  [isValid |-> Len(e3) = 0,
         cardType |-> type,
         errors |-> e3,
         formattedNumber |-> formatCardNumber(number),
         maskedNumber |-> maskCardNumber(number)]

validatePaymentInfo_RejectsUnknown(number, code, month, year) ==
    LET type == identifyCardType(number)
        e0 == PushIf(<<>>, type = "Unknown", "Unsupported card type.")
        e1 == PushIf(e0, ~validateCardNumber(number), InvalidCardMsg)
        e2 == PushIf(e1, ~validateCVV(code, type), InvalidCvvMsg(type))
        e3 == PushIf(e2, ~validateExpirationDate(month, year), InvalidExpMsg)
    IN  [isValid |-> Len(e3) = 0,
         cardType |-> type,
         errors |-> e3,
         formattedNumber |-> formatCardNumber(number),
         maskedNumber |-> maskCardNumber(number)]

validatePaymentInfo_HidesInvalid(number, code, month, year) ==
    LET type == identifyCardType(number)
        e1 == PushIf(<<>>, ~validateCardNumber(number), InvalidCardMsg)
        e2 == PushIf(e1, ~validateCVV(code, type), InvalidCvvMsg(type))
        e3 == PushIf(e2, ~validateExpirationDate(month, year), InvalidExpMsg)
    IN  [isValid |-> Len(e3) = 0,
         cardType |-> IF Len(e1) = 0 THEN type ELSE "Unknown",
         errors |-> e3,
         formattedNumber |-> IF Len(e3) = 0 THEN formatCardNumber(number)
                             ELSE <<>>,
         maskedNumber |-> maskCardNumber(number)]

validatePaymentInfo(number, code, month, year) ==
    LET type == identifyCardType(number)
        e1 == PushIf(<<>>, ~validateCardNumber(number), InvalidCardMsg)
        e2 == PushIf(e1, ~validateCVV(code, type), InvalidCvvMsg(type))
        e3 == PushIf(e2, ~validateExpirationDate(month, year), InvalidExpMsg)
    IN  [isValid |-> Len(e3) = 0,
         cardType |-> type,
         errors |-> e3,
         formattedNumber |-> formatCardNumber(number),
         maskedNumber |-> maskCardNumber(number)]

-----------------------------------------------------------------------------
(* The inputs the functions are applied to *)

MaxInputLen == 20   \* longest card number, in digits

MaxCvvLen == 5      \* longest CVV, in digits

FirstYear == 2025   \* first year the clock may show

NumYears == 2       \* number of years the clock may show

\* TEST_CARDS
TestVisa == D(<<4, 5, 3, 2, 0, 1, 5, 1, 1, 2, 8, 3, 0, 3, 6, 6>>)

TestMastercard == D(<<5, 4, 2, 5, 2, 3, 3, 4, 3, 0, 1, 0, 9, 9, 0, 3>>)

TestAmex == D(<<3, 7, 4, 2, 4, 5, 4, 5, 5, 4, 0, 0, 1, 2, 6>>)

TestDiscover == D(<<6, 0, 1, 1, 0, 0, 0, 9, 9, 1, 3, 0, 0, 0, 0, 9>>)

TestInvalid == D(<<1, 2, 3, 4, 5, 6, 7, 8, 9, 0, 1, 2, 3, 4, 5, 6>>)

TestCards == {TestVisa, TestMastercard, TestAmex, TestDiscover, TestInvalid}

\* digit strings the card numbers tried are cut from: the test cards and one
\* number for each remaining prefix family
\* a number of no known network that passes the checksum
UnknownCard == D(<<9, 0, 5, 6, 7, 8, 1, 2, 4, 9, 3, 0, 7, 5, 1, 2>>)

Bases ==
    TestCards \cup
    {D(<<2, 2, 2, 1, 0, 0, 8, 7, 4, 1, 9, 3, 0, 5, 2, 6>>),
     D(<<3, 4, 0, 9, 8, 7, 1, 5, 5, 2, 3, 6, 4, 0, 7>>),
     D(<<6, 5, 1, 0, 7, 3, 9, 9, 2, 4, 8, 0, 6, 1, 5, 3>>),
     D(<<6, 4, 4, 7, 1, 8, 0, 5, 9, 3, 2, 6, 6, 4, 0, 1>>),
     D(<<6, 2, 2, 1, 2, 6, 4, 9, 0, 7, 5, 8, 1, 3, 3, 2>>),
     D(<<9, 0, 5, 6, 7, 8, 1, 2, 4, 9, 3, 0, 7, 5, 1, 8>>)}

\* the first n digits of b, b repeated as often as needed
Cyclic(b, n) == [i \in 1..n |-> b[((i - 1) % Len(b)) + 1]]

DigitStrings(n) == [1..n -> DigitChars]

CardInputs ==
    {<<>>}
    \cup {Cyclic(b, n) \o <<d>> : b \in Bases, n \in 0..(MaxInputLen - 1),
                                  d \in DigitChars}
    \cup UNION {DigitStrings(n) : n \in 1..3}
    \cup {D(<<6, 2, 2>>) \o t : t \in DigitStrings(3)}
    \cup {D(<<6, 0, 1>>) \o t : t \in DigitStrings(1)}
    \cup {formatCardNumber(c) : c \in TestCards}
    \cup {<<" ">> \o c \o <<" ">> : c \in TestCards}

CvvBase == D(<<1, 2, 3, 4, 5, 6, 7, 8, 9>>)

InsertAt(s, p, c) == SubSeq(s, 1, p - 1) \o <<c>> \o SubSeq(s, p, Len(s))

CvvDigitInputs == {Take(CvvBase, n) : n \in 0..MaxCvvLen}

CvvInputs ==
    CvvDigitInputs
    \cup UNION {{InsertAt(s, p, c) : p \in 1..(Len(s) + 1),
                                      c \in OtherChars \cup WhitespaceChars} :
                 s \in CvvDigitInputs}

\* n.toString() of an integer n >= 0
RECURSIVE IntToStr(_)
IntToStr(n) ==
    IF n < 10 THEN <<DigitChar[n + 1]>>
    ELSE IntToStr(n \div 10) \o <<DigitChar[(n % 10) + 1]>>

ClockYears == FirstYear..(FirstYear + NumYears - 1)

MonthNumbers == (0 - 1)..14

YearNumbers ==
    (FirstYear - 1)..(FirstYear + NumYears)
    \cup (FirstYear + MaxYearsAhead - 1)..(FirstYear + NumYears + MaxYearsAhead)
    \cup {0 - 1, 0, 99, 100, 101, 1999}

\* the year written with two digits
TwoDigit(y) == y - Century

MalformedFields ==
    {JsUndefined, JsString(<<>>), JsString(<<"a", "a">>), JsString(<<" ">>),
     JsString(<<"-">>)}

MonthInputs ==
    {JsNumber(m) : m \in MonthNumbers}
    \cup {JsString(IntToStr(m)) : m \in 0..13}
    \cup {JsString(<<"0">> \o IntToStr(m)) : m \in 0..9}
    \cup {JsString(<<"7", "a">>), JsString(<<" ", "7">>), JsString(<<"-", "3">>)}
    \cup MalformedFields

YearInputs ==
    {JsNumber(y) : y \in YearNumbers}
    \cup {JsNumber(TwoDigit(y)) : y \in YearNumbers \cap (Century..(Century + 99))}
    \cup {JsString(IntToStr(y)) : y \in {yy \in YearNumbers : yy >= 0}}
    \cup {JsString(IntToStr(TwoDigit(y))) :
              y \in YearNumbers \cap (Century..(Century + 99))}
    \cup MalformedFields

\* the fields of a form filled in correctly
GoodCvv == D(<<1, 2, 3>>)

GoodMonth == JsString(D(<<1, 2>>))

GoodYear == JsString(IntToStr(FirstYear + NumYears + 3))

\* what a call returned: a boolean, a string or a result object, the
\* fields of the other types left at their defaults
NoObject ==
    [isValid |-> FALSE, cardType |-> "", errors |-> <<>>,
     formattedNumber |-> <<>>, maskedNumber |-> <<>>]

NoReturn ==
    [kind |-> "none", bool |-> FALSE, str |-> "", text |-> <<>>,
     obj |-> NoObject]

RetBoolean(b) == [NoReturn EXCEPT !.kind = "boolean", !.bool = b]

RetString(s) == [NoReturn EXCEPT !.kind = "string", !.str = s]

RetObject(o) == [NoReturn EXCEPT !.kind = "object", !.obj = o]

\* a returned string, kept as its characters
RetText(s) == [NoReturn EXCEPT !.kind = "text", !.text = s]

\* the call ended with an exception of this name
Thrown(name) == [NoReturn EXCEPT !.kind = "throw", !.str = name]

\* x.replace(...) is a TypeError unless x is a string: undefined and null
\* have no properties, a number has no method replace
ValueTypes == {"string", "undefined", "null", "number"}

ReplaceOf(type, r) == IF type = "string" THEN r ELSE Thrown("TypeError")

NoPrev == [number |-> <<>>, accepted |-> FALSE]

\* the indicator before anything is typed: empty and hidden
NoHint == [cardType |-> "Unknown", text |-> "", display |-> ""]

NoFrames == <<>>

-----------------------------------------------------------------------------
(* Calls of the functions of payment.js: pure, they change only call, ret *)

Inputs == <<cardNumber, cvv, numberType, cvvType, cardType, expMonth, expYear,
            currentYear, currentMonth>>

CallValidateCardNumber ==
    /\ call = "none"
    /\ call' = "validateCardNumber"
    /\ ret' = ReplaceOf(numberType, RetBoolean(validateCardNumber(cardNumber)))
    /\ UNCHANGED <<Inputs, edit, prev, hint, frames, App>>

CallIdentifyCardType ==
    /\ call = "none"
    /\ call' = "identifyCardType"
    /\ ret' = ReplaceOf(numberType, RetString(identifyCardType(cardNumber)))
    /\ UNCHANGED <<Inputs, edit, prev, hint, frames, App>>

CallValidateCVV ==
    /\ call = "none"
    /\ call' = "validateCVV"
    /\ ret' = ReplaceOf(cvvType, RetBoolean(validateCVV(cvv, cardType)))
    /\ UNCHANGED <<Inputs, edit, prev, hint, frames, App>>

CallValidateExpirationDate ==
    /\ call = "none"
    /\ call' = "validateExpirationDate"
    /\ ret' = RetBoolean(validateExpirationDate(expMonth, expYear))
    /\ UNCHANGED <<Inputs, edit, prev, hint, frames, App>>

CallValidatePaymentInfo ==
    /\ call = "none"
    /\ call' = "validatePaymentInfo"
    /\ ret' = ReplaceOf(numberType,
                ReplaceOf(cvvType,
                    RetObject(validatePaymentInfo(cardNumber, cvv, expMonth,
                                                  expYear))))
    /\ UNCHANGED <<Inputs, edit, prev, hint, frames, App>>

CallFormatCardNumber ==
    /\ call = "none"
    /\ call' = "formatCardNumber"
    /\ ret' = ReplaceOf(numberType, RetText(formatCardNumber(cardNumber)))
    /\ UNCHANGED <<Inputs, edit, prev, hint, frames, App>>

CallMaskCardNumber ==
    /\ call = "none"
    /\ call' = "maskCardNumber"
    /\ ret' = ReplaceOf(numberType, RetText(maskCardNumber(cardNumber)))
    /\ UNCHANGED <<Inputs, edit, prev, hint, frames, App>>

(* The user changes an accepted card number and it is checked again *)

ReplaceAt(s, p, c) == [s EXCEPT ![p] = c]

Edited(kind, number) ==
    /\ call = "validateCardNumber"
    /\ ret.bool
    /\ edit = "none"
    /\ cardNumber' = number
    /\ edit' = kind
    /\ prev' = [number |-> cardNumber, accepted |-> ret.bool]
    /\ call' = "none"
    /\ ret' = NoReturn
    /\ UNCHANGED <<cvv, numberType, cvvType, cardType, expMonth, expYear,
                   currentYear, currentMonth, hint, frames, App>>

ReplaceDigit ==
    \E p \in 1..Len(cardNumber), d \in DigitChars :
        /\ cardNumber[p] \in DigitChars
        /\ d # cardNumber[p]
        /\ Edited("replace", ReplaceAt(cardNumber, p, d))

InsertChar ==
    \E p \in 1..(Len(cardNumber) + 1), c \in OtherChars \cup WhitespaceChars :
        Edited("insert", InsertAt(cardNumber, p, c))

(* The card-number field of the payment form: the browser appends the    *)
(* typed digit unless the field is full, then the input handler re-formats *)
(* the value and sets the card-type indicator                              *)

CardNumberMaxLength == 19

\* the numbers the user types, digit by digit
Typable ==
    {s \in CardInputs : IsDigitString(s)}
    \cup {D(<<6, 2, 2>>) \o t : t \in DigitStrings(1) \cup DigitStrings(2)}

TypeDigit(d) ==
    /\ Len(cardNumber) < CardNumberMaxLength
    /\ LET value == StripNonDigits(cardNumber \o <<d>>)
           type == identifyCardType(value)
       IN  /\ value \in Typable
           /\ cardNumber' = formatCardNumber(value)
           /\ hint' = IF type # "Unknown" /\ Len(value) >= 4
                      THEN [cardType |-> type, text |-> type,
                            display |-> "inline"]
                      ELSE [cardType |-> type, text |-> hint.text,
                            display |-> "none"]
    /\ call' = "input"
    /\ ret' = NoReturn
    /\ UNCHANGED <<cvv, numberType, cvvType, cardType, expMonth, expYear,
                   currentYear, currentMonth, edit, prev, frames>>
    /\ keyed' = Append(keyed, d)
    /\ UNCHANGED <<cardName, Checkout, Shop, Auth, Db>>

\* a keystroke into the full field: the browser drops it, no input event
TypeIgnored(d) ==
    /\ Len(cardNumber) >= CardNumberMaxLength
    /\ Append(keyed, d) \in Typable
    /\ keyed' = Append(keyed, d)
    /\ UNCHANGED <<Payment, cardName, Checkout, Shop, Auth, Db>>

-----------------------------------------------------------------------------
(* The payment modal: handlePaymentSubmit of PaymentComponent, and         *)
(* processOrder of AppController, its onPaymentSuccess callback            *)

PayButton == [disabled |-> FALSE, text |-> "Pay"]

NoPaymentData ==
    [cardType |-> "", lastFourDigits |-> <<>>, maskedNumber |-> <<>>]

\* showNotification(message, type): the message as the list of its parts
Note(type, parts) == [type |-> type, text |-> parts]

FillInNote == Note("error", <<"Please fill in all payment fields">>)

SuccessNote == Note("success", <<"Payment successful!">>)

OrderPlacedNote == Note("success", <<"Order placed successfully!">>)

OrderFailedNote ==
    Note("error", <<"Failed to process order. Please try again.">>)

\* a request as apiService.fetch sends it: with the Authorization header
\* when a token is stored
Request(method, path) ==
    [method |-> method, path |-> path, auth |-> token # ""]

\* cartService.getItemCount()
RECURSIVE getItemCount(_)
getItemCount(items) ==
    IF items = <<>> THEN 0
    ELSE items[1].quantity + getItemCount(Tail(items))

SubmitOutcome_SkipsValidation(number, code, month, year, name) ==
    IF number = <<>> \/ month.s = <<>> \/ year.s = <<>> \/ code = <<>>
       \/ Trim(name) = <<>>
    THEN "missing"
    ELSE "process"

\* the two tests of handlePaymentSubmit before it processes the payment
SubmitOutcome(number, code, month, year, name) ==
    IF number = <<>> \/ month.s = <<>> \/ year.s = <<>> \/ code = <<>>
       \/ Trim(name) = <<>>
    THEN "missing"
    ELSE IF ~validatePaymentInfo(number, code, month, year).isValid
         THEN "invalid"
    ELSE "process"

\* the submit handler, up to the await of the processing delay
Submit ==
    /\ stage = "form"
    /\ modal = "open"
    /\ LET outcome == SubmitOutcome(cardNumber, cvv, expMonth, expYear,
                                    cardName)
           validation == validatePaymentInfo(cardNumber, cvv, expMonth,
                                             expYear)
       IN  CASE outcome = "missing" ->
                    /\ notes' = notes \cup {FillInNote}
                    /\ UNCHANGED <<stage, payButton, paymentData>>
             [] outcome = "invalid" ->
                    /\ notes' = notes \cup {Note("error", validation.errors)}
                    /\ UNCHANGED <<stage, payButton, paymentData>>
             [] OTHER ->
                    /\ payButton' = [disabled |-> TRUE,
                                     text |-> "Processing..."]
                    /\ paymentData' =
                           [cardType |-> validation.cardType,
                            lastFourDigits |-> SliceLast(cardNumber, 4),
                            maskedNumber |-> validation.maskedNumber]
                    /\ stage' = "delay"
                    /\ UNCHANGED notes
    /\ UNCHANGED <<Payment, Form, modal, orders, Shop, Auth, Db>>

\* closeModal() and the success notification that end handlePaymentSubmit
\* once onPaymentSuccess has returned
PaymentReported(shown) ==
    /\ modal' = "closed"
    /\ notes' = notes \cup shown \cup {SuccessNote}
    /\ stage' = "done"

\* the delay is over: onPaymentSuccess is processOrder, which runs up to
\* the await of apiService.createOrder
DelayOver ==
    /\ stage = "delay"
    /\ sent' = Append(sent, Request("POST", "/orders"))
    /\ stage' = "createOrder"
    /\ UNCHANGED <<Payment, Form, modal, payButton, notes, paymentData,
                   orders, Shop, token, currentUser, authCalls, Db>>

\* POST /orders is answered with success: processOrder goes on to
\* cartService.clearCart(), up to the await of apiService.clearCart
OrderCreated ==
    /\ stage = "createOrder"
    /\ orders' = orders + 1
    /\ sent' = Append(sent, Request("DELETE", "/cart/clear"))
    /\ stage' = "clearCart"
    /\ UNCHANGED <<Payment, Form, modal, payButton, notes, paymentData,
                   Shop, token, currentUser, authCalls, Db>>

\* POST /orders is answered without success, or fails and apiService.fetch
\* throws: processOrder catches what is thrown and returns
OrderNotCreated ==
    /\ stage = "createOrder"
    /\ \E thrown \in BOOLEAN :
           PaymentReported(IF thrown THEN {OrderFailedNote} ELSE {})
    /\ UNCHANGED <<Payment, Form, payButton, paymentData, orders, Shop,
                   Auth, Db>>

\* DELETE /cart/clear is answered: the cart and the badge are emptied
CartCleared ==
    /\ stage = "clearCart"
    /\ serverCart' = <<>>
    /\ cart' = <<>>
    /\ badge' = getItemCount(<<>>)
    /\ PaymentReported({OrderPlacedNote})
    /\ UNCHANGED <<Payment, Form, payButton, paymentData, orders, atLogout,
                   Auth, Db>>

\* DELETE /cart/clear fails: apiService.fetch throws inside clearCart
\* before this.cart = [], and processOrder catches it
CartNotCleared ==
    /\ stage = "clearCart"
    /\ PaymentReported({OrderFailedNote})
    /\ UNCHANGED <<Payment, Form, payButton, paymentData, orders, Shop,
                   Auth, Db>>

-----------------------------------------------------------------------------
(* The cart of the page: addToCart, removeFromCart and updateCartQuantity  *)
(* of CampusSwap, and the quantity buttons of the cart modal               *)

MaxQuantity == 3    \* largest quantity of one item

Products == {"p1", "p2", "p3"}

Item(id, n) == [productId |-> id, quantity |-> n]

\* cart.find(item => item.productId === productId): its index, 0 if none
IndexOf(items, id) ==
    IF \E i \in 1..Len(items) : items[i].productId = id
    THEN CHOOSE i \in 1..Len(items) :
             /\ items[i].productId = id
             /\ \A j \in 1..(i - 1) : items[j].productId # id
    ELSE 0

addToCart(items, id) ==
    LET i == IndexOf(items, id)
    IN  IF i # 0 THEN [items EXCEPT ![i].quantity = @ + 1]
        ELSE Append(items, Item(id, 1))

removeFromCart(items, id) ==
    SelectSeq(items, LAMBDA item : item.productId # id)

updateCartQuantity_KeepsItem(items, id, newQuantity) ==
    LET i == IndexOf(items, id)
    IN  IF i # 0 THEN [items EXCEPT ![i].quantity = newQuantity] ELSE items

updateCartQuantity(items, id, newQuantity) ==
    IF newQuantity <= 0 THEN removeFromCart(items, id)
    ELSE LET i == IndexOf(items, id)
         IN  IF i # 0 THEN [items EXCEPT ![i].quantity = newQuantity]
             ELSE items

\* the cart changes, updateCartDisplay() shows the new count
CartBecomes(items) ==
    /\ cart' = items
    /\ badge' = getItemCount(items)
    /\ UNCHANGED <<Payment, Form, Checkout, serverCart, atLogout, Auth, Db>>

AddToCart(id) ==
    /\ \A i \in 1..Len(cart) :
           cart[i].productId = id => cart[i].quantity < MaxQuantity
    /\ CartBecomes(addToCart(cart, id))

RemoveFromCart(id) ==
    /\ IndexOf(cart, id) # 0
    /\ CartBecomes(removeFromCart(cart, id))

\* a click on the + or - button of an item of the cart modal
ClickQuantity(id, action) ==
    /\ IndexOf(cart, id) # 0
    /\ LET quantity == cart[IndexOf(cart, id)].quantity
           newQuantity == IF action = "increase" THEN quantity + 1
                          ELSE quantity - 1
       IN  /\ newQuantity <= MaxQuantity
           /\ CartBecomes(updateCartQuantity(cart, id, newQuantity))

-----------------------------------------------------------------------------
(* AuthService: login, register, logout and getCurrentUser.  A call that   *)
(* awaits the server is an entry of authCalls; the response, or the        *)
(* failure of the request, is handled by a later action.                   *)

MaxAuthCalls == 3   \* number of calls of AuthService that are followed

Users == {"u1", "u2"}

\* the token the server issues to a user, and the user of a token
TokenOf(user) == IF user = "u1" THEN "t1" ELSE "t2"

UserOf(tok) == IF tok = "t1" THEN "u1" ELSE IF tok = "t2" THEN "u2" ELSE ""

AuthCall(op, user, pos, result, failed) ==
    [op |-> op, user |-> user, pos |-> pos, result |-> result,
     failed |-> failed]

LoggedOut_KeepsToken == [token |-> token, user |-> ""]

\* logout(): removeToken(), currentUser = null
LoggedOut == [token |-> "", user |-> ""]

AuthUnchanged == UNCHANGED <<Payment, Form, Checkout, Shop, Db>>

\* login(email, password) and register(userData), up to the await
StartLogin(op, user) ==
    /\ Len(authCalls) < MaxAuthCalls
    /\ authCalls' = Append(authCalls, AuthCall(op, user, "await", "", FALSE))
    /\ sent' = Append(sent, Request("POST", "/auth/" \o op))
    /\ UNCHANGED <<token, currentUser>>
    /\ AuthUnchanged

\* the response carries a token: it is stored and currentUser is set
LoginResponds(i) ==
    /\ authCalls[i].op \in {"login", "register"}
    /\ authCalls[i].pos = "await"
    /\ token' = TokenOf(authCalls[i].user)
    /\ currentUser' = authCalls[i].user
    /\ authCalls' = [authCalls EXCEPT ![i].pos = "returned",
                                      ![i].result = authCalls[i].user]
    /\ UNCHANGED sent
    /\ AuthUnchanged

\* the request fails: apiService.fetch throws, so does login or register
LoginFails(i) ==
    /\ authCalls[i].op \in {"login", "register"}
    /\ authCalls[i].pos = "await"
    /\ authCalls' = [authCalls EXCEPT ![i].pos = "returned",
                                      ![i].failed = TRUE]
    /\ UNCHANGED <<token, currentUser, sent>>
    /\ AuthUnchanged

Logout ==
    /\ token' = LoggedOut.token
    /\ currentUser' = LoggedOut.user
    /\ UNCHANGED <<authCalls, sent>>
    /\ AuthUnchanged

\* getCurrentUser(): null at once without a token, else GET /auth/me with
\* the token stored at this moment
StartGetCurrentUser ==
    /\ Len(authCalls) < MaxAuthCalls
    /\ IF token = ""
       THEN /\ authCalls' = Append(authCalls,
                                   AuthCall("me", "", "returned", "", FALSE))
            /\ UNCHANGED sent
       ELSE /\ authCalls' = Append(authCalls,
                                   AuthCall("me", UserOf(token), "await", "",
                                            FALSE))
            /\ sent' = Append(sent, Request("GET", "/auth/me"))
    /\ UNCHANGED <<token, currentUser>>
    /\ AuthUnchanged

\* GET /auth/me is answered with the user of the token it carried
MeResponds(i) ==
    /\ authCalls[i].op = "me"
    /\ authCalls[i].pos = "await"
    /\ currentUser' = authCalls[i].user
    /\ authCalls' = [authCalls EXCEPT ![i].pos = "returned",
                                      ![i].result = authCalls[i].user]
    /\ UNCHANGED <<token, sent>>
    /\ AuthUnchanged

\* GET /auth/me fails: the catch of getCurrentUser logs out, returns null
MeFails(i) ==
    /\ authCalls[i].op = "me"
    /\ authCalls[i].pos = "await"
    /\ token' = LoggedOut.token
    /\ currentUser' = LoggedOut.user
    /\ authCalls' = [authCalls EXCEPT ![i].pos = "returned",
                                      ![i].result = "",
                                      ![i].failed = TRUE]
    /\ UNCHANGED sent
    /\ AuthUnchanged

-----------------------------------------------------------------------------
(* Logging out and in again: AppController.logout, the login form, and     *)
(* the start of the page after each reload.  The server knows the user of  *)
(* a request by its Authorization header only.                             *)

MaxSent == 8    \* no logout or login is started after that many requests

ClearCartToken_BeforeLogout == token

\* the token apiService.fetch finds in localStorage when logout() calls
\* cartService.clearCart(): authService.logout() has removed it
ClearCartToken == LoggedOut.token

\* DELETE /cart/clear on the server: 401 for a request without a user
ServerClearCart(items, user) == IF user = "" THEN items ELSE <<>>

\* GET /cart on the server: the items of the user's cart
ServerGetCart(items) == items

SessionUnchanged ==
    UNCHANGED <<Payment, Form, modal, payButton, notes, paymentData, orders,
                Db>>

\* logout(): authService.logout(), cartService.clearCart() without
\* awaiting it, then the page is loaded again, without a token
LogoutClicked ==
    /\ stage = "shopping"
    /\ Len(sent) < MaxSent
    /\ atLogout' = cart
    /\ token' = LoggedOut.token
    /\ currentUser' = LoggedOut.user
    /\ sent' = Append(sent, [method |-> "DELETE", path |-> "/cart/clear",
                             auth |-> ClearCartToken # ""])
    /\ authCalls' = Append(authCalls,
                           AuthCall("clearCart", UserOf(ClearCartToken),
                                    "await", "", FALSE))
    /\ cart' = <<>>
    /\ badge' = getItemCount(<<>>)
    /\ stage' = "loggedOut"
    /\ UNCHANGED serverCart
    /\ SessionUnchanged

\* the server handles a DELETE /cart/clear; the page that sent it is gone
ClearCartHandled(i) ==
    /\ authCalls[i].op = "clearCart"
    /\ authCalls[i].pos = "await"
    /\ serverCart' = ServerClearCart(serverCart, authCalls[i].user)
    /\ authCalls' = [authCalls EXCEPT ![i].pos = "returned",
                                      ![i].failed = (authCalls[i].user = "")]
    /\ UNCHANGED <<cart, badge, atLogout, token, currentUser, sent, stage>>
    /\ SessionUnchanged

\* the login form is submitted: authService.login awaits POST /auth/login
LoginSubmitted ==
    /\ stage = "loggedOut"
    /\ Len(sent) < MaxSent
    /\ sent' = Append(sent, Request("POST", "/auth/login"))
    /\ stage' = "login"
    /\ UNCHANGED <<Shop, token, currentUser, authCalls>>
    /\ SessionUnchanged

\* login stores the token and the user; updateAuthenticatedUI() then
\* awaits getCurrentUser().  A failed login leaves the form open.
LoginAnswered(ok) ==
    /\ stage = "login"
    /\ IF ok
       THEN /\ token' = TokenOf("u1")
            /\ currentUser' = "u1"
            /\ sent' = Append(sent, [method |-> "GET", path |-> "/auth/me",
                                     auth |-> TRUE])
            /\ stage' = "updateUI"
       ELSE /\ stage' = "loggedOut"
            /\ UNCHANGED <<token, currentUser, sent>>
    /\ UNCHANGED <<Shop, authCalls>>
    /\ SessionUnchanged

\* GET /auth/me is answered.  After updateAuthenticatedUI() the page is
\* loaded again and init() awaits loadUser(); after loadUser() it awaits
\* loadCart().  A failed request logs out: nothing more is loaded.
ProfileAnswered(ok) ==
    /\ stage \in {"updateUI", "loadUser"}
    /\ IF ~ok
       THEN /\ token' = LoggedOut.token
            /\ currentUser' = LoggedOut.user
            /\ stage' = "loggedOut"
            /\ UNCHANGED <<sent, authCalls>>
       ELSE IF stage = "updateUI"
       THEN /\ currentUser' = ""
            /\ sent' = Append(sent, Request("GET", "/auth/me"))
            /\ stage' = "loadUser"
            /\ UNCHANGED <<token, authCalls>>
       ELSE /\ currentUser' = UserOf(token)
            /\ sent' = Append(sent, Request("GET", "/cart"))
            /\ authCalls' = Append(authCalls,
                                   AuthCall("getCart", UserOf(token), "await",
                                            "", FALSE))
            /\ stage' = "loadCart"
            /\ UNCHANGED token
    /\ UNCHANGED Shop
    /\ SessionUnchanged

\* cartService.loadCart(): the items of the response, [] when it failed;
\* then updateCartDisplay()
CartAnswered(i, ok) ==
    /\ stage = "loadCart"
    /\ authCalls[i].op = "getCart"
    /\ authCalls[i].pos = "await"
    /\ cart' = IF ok THEN ServerGetCart(serverCart) ELSE <<>>
    /\ badge' = getItemCount(cart')
    /\ authCalls' = [authCalls EXCEPT ![i].pos = "returned",
                                      ![i].failed = ~ok]
    /\ stage' = "shopping"
    /\ UNCHANGED <<serverCart, atLogout, token, currentUser, sent>>
    /\ SessionUnchanged

-----------------------------------------------------------------------------
(* AuthController.register on the server.  Each request is a frame of     *)
(* regs; the handler runs up to its next await in one step, and the steps  *)
(* of several requests interleave.  The user table holds the emails of     *)
(* the accounts; the database keeps them unique.                           *)

MaxRegs == 2    \* number of register requests the server receives

Emails == {"a@yorku.ca", "A@yorku.ca", "b@yorku.ca", "c@gmail.com"}

\* email.toLowerCase()
toLowerCase(email) == IF email = "A@yorku.ca" THEN "a@yorku.ca" ELSE email

\* /^[^\s@]+@yorku\.ca$/ on the lower-cased email
IsYorkEmail(email) == toLowerCase(email) \in {"a@yorku.ca", "b@yorku.ca"}

Reg(email, pos, status, error) ==
    [email |-> email, pos |-> pos, status |-> status, error |-> error]

Respond(i, status, error) ==
    regs' = [regs EXCEPT ![i].pos = "done", ![i].status = status,
                         ![i].error = error]

RegUnchanged == UNCHANGED <<Payment, Form, Checkout, Shop, Auth>>

\* UserDAO.findByEmail: findUnique on the lower-cased email
findByEmail(table, email) == toLowerCase(email) \in table

\* the request arrives and passes, or fails, the checks of its fields;
\* a request that passes awaits UserDAO.findByEmail
Register(email) ==
    /\ Len(regs) < MaxRegs
    /\ regs' = Append(regs,
                      IF IsYorkEmail(email)
                      THEN Reg(email, "findByEmail", 0, "")
                      ELSE Reg(email, "done", 400, "Invalid email"))
    /\ UNCHANGED users
    /\ RegUnchanged

\* findByEmail has answered: 409 for an existing user, else the handler
\* awaits UserDAO.create
EmailLookedUp(i) ==
    /\ regs[i].pos = "findByEmail"
    /\ IF findByEmail(users, regs[i].email)
       THEN Respond(i, 409, "Email already registered")
       ELSE regs' = [regs EXCEPT ![i].pos = "create"]
    /\ UNCHANGED users
    /\ RegUnchanged

\* prisma.user.create has answered: 201 with the new user, or the unique
\* constraint failed (P2002), UserDAO.create threw and the catch of
\* register answered 500
UserCreated(i) ==
    /\ regs[i].pos = "create"
    /\ LET email == toLowerCase(regs[i].email)
       IN  IF email \in users
           THEN /\ Respond(i, 500, "Registration failed")
                /\ UNCHANGED users
           ELSE /\ users' = users \cup {email}
                /\ Respond(i, 201, "")
    /\ RegUnchanged

-----------------------------------------------------------------------------
(* Several invocations of validatePaymentInfo, run statement by statement *)
(* and interleaved.  A frame holds the arguments and the locals errors and *)
(* cardType of one invocation, and the object it returned.                 *)

NumCalls == 2       \* number of callers

Callers == 1..NumCalls

\* the arguments the callers pass
CallArgs ==
    {[number |-> TestVisa, code |-> GoodCvv, month |-> GoodMonth,
      year |-> GoodYear],
     [number |-> TestInvalid, code |-> D(<<1, 2>>),
      month |-> JsString(D(<<1, 3>>)), year |-> GoodYear],
     [number |-> TestAmex, code |-> GoodCvv, month |-> GoodMonth,
      year |-> GoodYear],
     [number |-> UnknownCard, code |-> GoodCvv, month |-> JsNumber(6),
      year |-> JsString(IntToStr(FirstYear - 1))],
     [number |-> Take(TestVisa, 12), code |-> GoodCvv, month |-> JsUndefined,
      year |-> GoodYear]}

IdleFrame ==
    [pc |-> "idle", number |-> <<>>, code |-> <<>>, month |-> JsUndefined,
     year |-> JsUndefined, cardType |-> "", errors |-> <<>>,
     result |-> NoObject]

Push_SharedArray(fs, p, msg) ==
    [q \in DOMAIN fs |->
        [fs[q] EXCEPT !.errors = Append(@, msg),
                      !.result.errors = IF fs[q].pc = "returned"
                                        THEN Append(@, msg) ELSE @]]

\* errors.push(msg) on the array of invocation p
Push(fs, p, msg) == [fs EXCEPT ![p].errors = Append(@, msg)]

At(fs, p, pc) == [fs EXCEPT ![p].pc = pc]

CallsUnchanged ==
    UNCHANGED <<Inputs, call, ret, edit, prev, hint, App>>

\* const errors = []; const cardType = identifyCardType(cardNumber)
Invoke(p) ==
    /\ frames[p].pc \in {"idle", "returned"}
    /\ \E a \in CallArgs :
           frames' = [frames EXCEPT ![p] =
                         [pc |-> "checkNumber", number |-> a.number,
                          code |-> a.code, month |-> a.month,
                          year |-> a.year,
                          cardType |-> identifyCardType(a.number),
                          errors |-> <<>>, result |-> NoObject]]
    /\ CallsUnchanged

CheckNumber(p) ==
    /\ frames[p].pc = "checkNumber"
    /\ frames' = At(IF ~validateCardNumber(frames[p].number)
                    THEN Push(frames, p, InvalidCardMsg) ELSE frames,
                    p, "checkCvv")
    /\ CallsUnchanged

CheckCvv(p) ==
    /\ frames[p].pc = "checkCvv"
    /\ frames' = At(IF ~validateCVV(frames[p].code, frames[p].cardType)
                    THEN Push(frames, p, InvalidCvvMsg(frames[p].cardType))
                    ELSE frames,
                    p, "checkDate")
    /\ CallsUnchanged

CheckDate(p) ==
    /\ frames[p].pc = "checkDate"
    /\ frames' = At(IF ~validateExpirationDate(frames[p].month,
                                               frames[p].year)
                    THEN Push(frames, p, InvalidExpMsg) ELSE frames,
                    p, "return")
    /\ CallsUnchanged

Return(p) ==
    /\ frames[p].pc = "return"
    /\ frames' = [frames EXCEPT
                      ![p].pc = "returned",
                      ![p].result =
                          [isValid |-> Len(frames[p].errors) = 0,
                           cardType |-> frames[p].cardType,
                           errors |-> frames[p].errors,
                           formattedNumber |->
                               formatCardNumber(frames[p].number),
                           maskedNumber |-> maskCardNumber(frames[p].number)]]
    /\ CallsUnchanged

-----------------------------------------------------------------------------
(* Specifications *)

InitForm ==
    /\ keyed = <<>>
    /\ cardName = <<>>

InitCheckout ==
    /\ stage = "form"
    /\ modal = "closed"
    /\ payButton = PayButton
    /\ notes = {}
    /\ paymentData = NoPaymentData
    /\ orders = 0

InitShop ==
    /\ cart = <<>>
    /\ badge = 0
    /\ serverCart = <<>>
    /\ atLogout = <<>>

InitAuth ==
    /\ token = ""
    /\ currentUser = ""
    /\ authCalls = <<>>
    /\ sent = <<>>

InitDb ==
    /\ users = {}
    /\ regs = <<>>

\* nothing of the shop has happened
InitApp ==
    /\ InitForm
    /\ InitCheckout
    /\ InitShop
    /\ InitAuth
    /\ InitDb

InitCommon ==
    /\ call = "none"
    /\ ret = NoReturn
    /\ edit = "none"
    /\ prev = NoPrev
    /\ hint = NoHint
    /\ frames = NoFrames
    /\ InitApp

\* every argument that should be a string is one
InitStrings ==
    /\ numberType = "string"
    /\ cvvType = "string"

\* card numbers of every length and prefix family, the other fields good
InitCard ==
    /\ cardNumber \in CardInputs
    /\ cvv = GoodCvv
    /\ cardType = "Unknown"
    /\ expMonth = GoodMonth
    /\ expYear = GoodYear
    /\ currentYear = FirstYear
    /\ currentMonth = 1
    /\ InitStrings
    /\ InitCommon

NextCard ==
    \/ CallValidateCardNumber
    \/ CallIdentifyCardType
    \/ ReplaceDigit
    \/ InsertChar

SpecCard == InitCard /\ [][NextCard]_vars

\* CVVs against every network, or expiration fields against every clock
InitFields ==
    /\ cardNumber = TestVisa
    /\ \/ /\ cvv \in CvvInputs
          /\ cardType \in Networks
          /\ expMonth = GoodMonth
          /\ expYear = GoodYear
          /\ currentYear = FirstYear
          /\ currentMonth = 1
       \/ /\ cvv = GoodCvv
          /\ cardType = "Visa"
          /\ expMonth \in MonthInputs
          /\ expYear \in YearInputs
          /\ currentYear \in ClockYears
          /\ currentMonth \in 1..12
    /\ InitStrings
    /\ InitCommon

NextFields ==
    \/ CallValidateCVV
    \/ CallValidateExpirationDate

SpecFields == InitFields /\ [][NextFields]_vars

\* whole forms, each field good or bad in each of its ways
FormCards ==
    TestCards
    \cup {ReplaceAt(TestAmex, 15, "7"), Take(TestVisa, 12), UnknownCard,
          Cyclic(D(<<9, 0, 5, 6, 7, 8, 1, 2, 4, 9, 3, 0, 7, 5, 1>>), 15) \o <<"9">>,
          formatCardNumber(TestVisa), InsertAt(TestVisa, 5, "a"), <<>>}

FormCvvs ==
    {D(<<1, 2, 3>>), D(<<1, 2, 3, 4>>), D(<<1, 2>>), <<>>,
     <<"1", "2", "a", "3">>}

FormMonths ==
    {JsString(D(<<0, 1>>)), JsString(D(<<1, 2>>)), JsString(D(<<1, 3>>)),
     JsNumber(6), JsString(<<>>), JsUndefined}

FormYears ==
    {JsString(IntToStr(y)) :
         y \in {FirstYear - 1, FirstYear, FirstYear + MaxYearsAhead + NumYears}}
    \cup {JsString(IntToStr(TwoDigit(FirstYear + NumYears))), JsNumber(FirstYear + 5),
          JsString(<<"a", "a">>)}

Init ==
    /\ cardNumber \in FormCards
    /\ cvv \in FormCvvs
    /\ cardType = "Unknown"
    /\ expMonth \in FormMonths
    /\ expYear \in FormYears
    /\ currentYear \in ClockYears
    /\ currentMonth \in {1, 12}
    /\ InitStrings
    /\ InitCommon

Next ==
    \/ CallValidatePaymentInfo
    \/ CallValidateCardNumber
    \/ CallIdentifyCardType
    \/ CallValidateCVV
    \/ CallValidateExpirationDate

Spec == Init /\ [][Next]_vars

\* validatePaymentInfo with a card number or a CVV that may be missing
\* (undefined, null) or a number instead of a string
InitArgs ==
    /\ numberType \in ValueTypes
    /\ cardNumber \in CASE numberType = "string" -> FormCards
                       [] numberType = "number" -> {TestVisa, TestInvalid}
                       [] OTHER -> {<<>>}
    /\ cvvType \in ValueTypes
    /\ cvv \in CASE cvvType = "string" -> FormCvvs
                [] cvvType = "number" -> {GoodCvv}
                [] OTHER -> {<<>>}
    /\ cardType = "Unknown"
    /\ expMonth \in FormMonths
    /\ expYear \in FormYears
    /\ currentYear = FirstYear
    /\ currentMonth = 1
    /\ InitCommon

NextArgs == CallValidatePaymentInfo

SpecArgs == InitArgs /\ [][NextArgs]_vars

\* card numbers of every length and prefix family, formatted and masked
NextFormat ==
    \/ CallFormatCardNumber
    \/ CallMaskCardNumber

SpecFormat == InitCard /\ [][NextFormat]_vars

\* callers of validatePaymentInfo at one current date
InitCalls ==
    /\ cardNumber = <<>>
    /\ cvv = <<>>
    /\ cardType = "Unknown"
    /\ expMonth = JsString(<<>>)
    /\ expYear = JsString(<<>>)
    /\ currentYear = FirstYear
    /\ currentMonth = 1
    /\ InitStrings
    /\ call = "none"
    /\ ret = NoReturn
    /\ edit = "none"
    /\ prev = NoPrev
    /\ hint = NoHint
    /\ frames = [p \in Callers |-> IdleFrame]
    /\ InitApp

NextCalls ==
    \E p \in Callers :
        \/ Invoke(p)
        \/ CheckNumber(p)
        \/ CheckCvv(p)
        \/ CheckDate(p)
        \/ Return(p)

SpecCalls == InitCalls /\ [][NextCalls]_vars

\* the payment modal, opened by checkout() on a cart with items, and
\* filled in: the card number as the input handler formats it, the CVV
\* without non-digits, month and year as options of the selects
Visa13 ==
    CHOOSE c \in {Take(TestVisa, 12) \o <<d>> : d \in DigitChars} :
        validateCardNumber(c)

PayCards ==
    {<<>>} \cup {formatCardNumber(c) :
                     c \in TestCards \cup {TestInvalid, UnknownCard, Visa13}}

PayCvvs == {<<>>, D(<<1, 2>>), D(<<1, 2, 3>>), D(<<1, 2, 3, 4>>)}

PayMonths == {JsString(<<>>), JsString(D(<<0, 1>>)), JsString(D(<<1, 2>>))}

PayYears ==
    {JsString(<<>>), JsString(IntToStr(FirstYear)),
     JsString(IntToStr(FirstYear + 14))}

PayNames == {<<>>, <<" ">>, <<"a">>}

PayCarts == {<<Item("p1", 1)>>, <<Item("p1", 2), Item("p2", 1)>>}

InitPay ==
    /\ cardNumber \in PayCards
    /\ cvv \in PayCvvs
    /\ cardType = "Unknown"
    /\ expMonth \in PayMonths
    /\ expYear \in PayYears
    /\ currentYear = FirstYear
    /\ currentMonth \in {1, 12}
    /\ InitStrings
    /\ call = "none"
    /\ ret = NoReturn
    /\ edit = "none"
    /\ prev = NoPrev
    /\ hint = NoHint
    /\ frames = NoFrames
    /\ keyed = StripNonDigits(cardNumber)
    /\ cardName \in PayNames
    /\ stage = "form"
    /\ modal = "open"
    /\ payButton = PayButton
    /\ notes = {}
    /\ paymentData = NoPaymentData
    /\ orders = 0
    /\ cart \in PayCarts
    /\ badge = getItemCount(cart)
    /\ serverCart = cart
    /\ atLogout = <<>>
    /\ token = "t1"
    /\ currentUser = "u1"
    /\ authCalls = <<>>
    /\ sent = <<>>
    /\ InitDb

NextPay ==
    \/ Submit
    \/ DelayOver
    \/ OrderCreated
    \/ OrderNotCreated
    \/ CartCleared
    \/ CartNotCleared

SpecCheckout == InitPay /\ [][NextPay]_vars

\* the cart of a page, empty at first
InitCart ==
    /\ cardNumber = <<>>
    /\ cvv = <<>>
    /\ cardType = "Unknown"
    /\ expMonth = JsString(<<>>)
    /\ expYear = JsString(<<>>)
    /\ currentYear = FirstYear
    /\ currentMonth = 1
    /\ InitStrings
    /\ InitCommon

NextCart ==
    \E id \in Products :
        \/ AddToCart(id)
        \/ RemoveFromCart(id)
        \/ \E action \in {"increase", "decrease"} : ClickQuantity(id, action)

SpecCart == InitCart /\ [][NextCart]_vars

\* AuthService of a page just loaded, with or without a stored token
InitAuthService ==
    /\ cardNumber = <<>>
    /\ cvv = <<>>
    /\ cardType = "Unknown"
    /\ expMonth = JsString(<<>>)
    /\ expYear = JsString(<<>>)
    /\ currentYear = FirstYear
    /\ currentMonth = 1
    /\ InitStrings
    /\ call = "none"
    /\ ret = NoReturn
    /\ edit = "none"
    /\ prev = NoPrev
    /\ hint = NoHint
    /\ frames = NoFrames
    /\ InitForm
    /\ InitCheckout
    /\ InitShop
    /\ token \in {"", "t1"}
    /\ currentUser = ""
    /\ authCalls = <<>>
    /\ sent = <<>>
    /\ InitDb

NextAuth ==
    \/ \E op \in {"login", "register"}, user \in Users : StartLogin(op, user)
    \/ StartGetCurrentUser
    \/ Logout
    \/ \E i \in 1..Len(authCalls) :
           \/ LoginResponds(i)
           \/ LoginFails(i)
           \/ MeResponds(i)
           \/ MeFails(i)

SpecAuth == InitAuthService /\ [][NextAuth]_vars

\* a server with or without an account, and no request yet
InitRegister ==
    /\ cardNumber = <<>>
    /\ cvv = <<>>
    /\ cardType = "Unknown"
    /\ expMonth = JsString(<<>>)
    /\ expYear = JsString(<<>>)
    /\ currentYear = FirstYear
    /\ currentMonth = 1
    /\ InitStrings
    /\ call = "none"
    /\ ret = NoReturn
    /\ edit = "none"
    /\ prev = NoPrev
    /\ hint = NoHint
    /\ frames = NoFrames
    /\ InitForm
    /\ InitCheckout
    /\ InitShop
    /\ InitAuth
    /\ users \in {{}, {"a@yorku.ca"}, {"b@yorku.ca"}}
    /\ regs = <<>>

NextRegister ==
    \/ \E email \in Emails : Register(email)
    \/ \E i \in 1..Len(regs) : EmailLookedUp(i) \/ UserCreated(i)

SpecRegister == InitRegister /\ [][NextRegister]_vars

SessionCarts ==
    {<<Item("p1", 1)>>, <<Item("p1", 2), Item("p2", 1)>>,
     <<Item("p3", 1), Item("p1", 3)>>, <<>>}

\* a user who is logged in, with the cart loaded from the server
InitSession ==
    /\ cardNumber = <<>>
    /\ cvv = <<>>
    /\ cardType = "Unknown"
    /\ expMonth = JsString(<<>>)
    /\ expYear = JsString(<<>>)
    /\ currentYear = FirstYear
    /\ currentMonth = 1
    /\ InitStrings
    /\ call = "none"
    /\ ret = NoReturn
    /\ edit = "none"
    /\ prev = NoPrev
    /\ hint = NoHint
    /\ frames = NoFrames
    /\ InitForm
    /\ stage = "shopping"
    /\ modal = "closed"
    /\ payButton = PayButton
    /\ notes = {}
    /\ paymentData = NoPaymentData
    /\ orders = 0
    /\ cart \in SessionCarts
    /\ badge = getItemCount(cart)
    /\ serverCart = cart
    /\ atLogout = <<>>
    /\ token = "t1"
    /\ currentUser = "u1"
    /\ authCalls = <<>>
    /\ sent = <<>>
    /\ InitDb

NextSession ==
    \/ LogoutClicked
    \/ LoginSubmitted
    \/ \E ok \in BOOLEAN : LoginAnswered(ok) \/ ProfileAnswered(ok)
    \/ \E i \in 1..Len(authCalls) :
           \/ ClearCartHandled(i)
           \/ \E ok \in BOOLEAN : CartAnswered(i, ok)

SpecSession == InitSession /\ [][NextSession]_vars

\* a card number typed into the empty card-number field
InitTyping ==
    /\ cardNumber = <<>>
    /\ cvv = <<>>
    /\ cardType = "Unknown"
    /\ expMonth = JsString(<<>>)
    /\ expYear = JsString(<<>>)
    /\ currentYear = FirstYear
    /\ currentMonth = 1
    /\ InitStrings
    /\ InitCommon

NextTyping ==
    \E d \in DigitChars :
        \/ TypeDigit(d)
        \/ TypeIgnored(d)

SpecTyping == InitTyping /\ [][NextTyping]_vars

-----------------------------------------------------------------------------
(* Properties *)

Cleaned == StripNonDigits(cardNumber)

\* a field that holds an integer: a number, or a string of digits
IsIntegerField(v) ==
    \/ v.t = "number"
    \/ v.t = "string" /\ v.s # <<>> /\ IsDigitString(v.s)

IntegerOf(v) == IF v.t = "number" THEN v.n ELSE DecimalValue(v.s)

ResolvedYear(y) == IF y < 100 THEN 2000 + y ELSE y

\* the checksum stated by position: the digit k places left of the last one
\* counts double, digits of the double added, when k is odd
ChecksumTerm(s, i) ==
    LET d == DigitVal(s[i])
    IN  IF (Len(s) - i) % 2 = 1 THEN ((2 * d) \div 10) + ((2 * d) % 10) ELSE d

RECURSIVE ChecksumFrom(_, _)
ChecksumFrom(s, i) ==
    IF i > Len(s) THEN 0 ELSE ChecksumTerm(s, i) + ChecksumFrom(s, i + 1)

\* C1: validateCardNumber returns true if and only if the cleaned input has
\* 13 to 19 digits and its checksum (rightmost digit not doubled, every
\* second digit doubled, 9 subtracted from a double above 9) is divisible by
\* 10; a cleaned input shorter than 13 or longer than 19 digits is rejected.
C1_ChecksumAndLength ==
    call = "validateCardNumber" =>
        (ret.bool <=> /\ Len(Cleaned) >= 13
                      /\ Len(Cleaned) <= 19
                      /\ ChecksumFrom(Cleaned, 1) % 10 = 0)

C1_Witness ==
    /\ call = "validateCardNumber"
    /\ ret.bool
    /\ Len(Cleaned) = 19

\* C2: isValid of validatePaymentInfo is true if and only if the three
\* checks pass: validateCardNumber of the card number, validateCVV of the
\* CVV for the identified network, validateExpirationDate of month and year.
C2_ValidIffAllChecksPass ==
    call = "validatePaymentInfo" =>
        (ret.obj.isValid <=>
            /\ validateCardNumber(cardNumber)
            /\ validateCVV(cvv, identifyCardType(cardNumber))
            /\ validateExpirationDate(expMonth, expYear))

C2_Witness ==
    /\ call = "validatePaymentInfo"
    /\ IsIntegerField(expMonth)
    /\ IsIntegerField(expYear)
    /\ ret.obj.isValid
    /\ ret.obj.cardType = "American Express"
    /\ Len(cvv) = 4

\* C3: validatePaymentInfo does not stop at the first failure: errors holds
\* exactly one reason for each failed check (card number, CVV, expiration,
\* in that order) and none for a check that passes, and the CVV reason names
\* 4 digits for American Express and 3 digits for every other network.
CvvReason(network) ==
    IF network = "American Express" THEN "Invalid CVV. 4 digits required."
    ELSE "Invalid CVV. 3 digits required."

ReasonIf(failed, reason) == IF failed THEN <<reason>> ELSE <<>>

C4_ExpirationRule ==
    (/\ call = "validateExpirationDate"
     /\ IsIntegerField(expMonth)
     /\ IsIntegerField(expYear)) =>
        LET m == IntegerOf(expMonth)
            y == ResolvedYear(IntegerOf(expYear))
            expired == y < currentYear \/ (y = currentYear /\ m < currentMonth)
        IN  ret.bool <=> /\ 1 <= m
                         /\ m <= 12
                         /\ ~expired
                         /\ y <= currentYear + 20

C4_Witness ==
    /\ call = "validateExpirationDate"
    /\ IsIntegerField(expMonth)
    /\ IsIntegerField(expYear)
    /\ IntegerOf(expMonth) = currentMonth
    /\ ResolvedYear(IntegerOf(expYear)) = currentYear
    /\ IntegerOf(expYear) < 100
    /\ ret.bool

\* C5: for a CVV made only of digits, validateCVV returns true exactly when
\* it has 4 digits and the network is American Express, or 3 digits and the
\* network is any other one.
C5_CvvLengthByNetwork ==
    (call = "validateCVV" /\ IsDigitString(cvv)) =>
        (ret.bool <=> \/ Len(cvv) = 4 /\ cardType = "American Express"
                      \/ Len(cvv) = 3 /\ cardType # "American Express")

C5_Witness ==
    /\ call = "validateCVV"
    /\ cvv = D(<<1, 2, 3, 4>>)
    /\ cardType = "American Express"
    /\ ret.bool

\* the number written by the first k digits of s, -1 when s is shorter
Prefix(s, k) == IF Len(s) >= k THEN DecimalValue(SubSeq(s, 1, k)) ELSE 0 - 1

NetworkByPrefix(s) ==
    IF Prefix(s, 1) = 4 THEN "Visa"
    ELSE IF Prefix(s, 2) \in (51..55) \cup (22..27) THEN "Mastercard"
    ELSE IF Prefix(s, 2) \in {34, 37} THEN "American Express"
    ELSE IF \/ Prefix(s, 4) = 6011
            \/ Prefix(s, 2) = 65
            \/ Prefix(s, 3) \in 644..649
            \/ Prefix(s, 6) \in 622126..622925 THEN "Discover"
    ELSE "Unknown"

OneDigitReplaced ==
    /\ call = "validateCardNumber"
    /\ edit = "replace"
    /\ prev.accepted
    /\ IsDigitString(prev.number)
    /\ Len(prev.number) >= 13
    /\ Len(prev.number) <= 19

\* C7: every single-digit error is detected: replacing one digit of an
\* accepted digit string of 13 to 19 digits by a different digit gives a
\* string validateCardNumber rejects.
C7_SingleDigitErrorDetected == OneDigitReplaced => ~ret.bool

C7_Witness ==
    /\ OneDigitReplaced
    /\ Len(cardNumber) = 16
    /\ cardNumber[16] # prev.number[16]
    /\ ~ret.bool

HasOtherChar(s) ==
    \E i \in 1..Len(s) : s[i] \notin DigitChars \cup WhitespaceChars

\* C8: validateCardNumber returns false for every input that contains a
\* character which is neither a digit nor whitespace.
C8_OtherCharRejected ==
    (call = "validateCardNumber" /\ HasOtherChar(cardNumber)) => ~ret.bool

\* C9: validateCVV returns false for every CVV that contains a non-digit
\* character, whatever the network.
C9_NonDigitCvvRejected ==
    (call = "validateCVV" /\ ~IsDigitString(cvv)) => ~ret.bool

\* a month or year that does not parse to a number
Unparsable(v) == ParseInt(v).nan

\* C10: a month or year that does not parse to a number fails the
\* expiration check: validateExpirationDate returns false, and
\* validatePaymentInfo returns isValid false with the expiration reason.
C10_UnparsableDateFails ==
    (Unparsable(expMonth) \/ Unparsable(expYear)) =>
        /\ call = "validateExpirationDate" => ~ret.bool
        /\ call = "validatePaymentInfo" =>
               /\ ~ret.obj.isValid
               /\ \E i \in 1..Len(ret.obj.errors) :
                      ret.obj.errors[i] = InvalidExpMsg

-----------------------------------------------------------------------------
(* The facade and arguments that are not strings *)

WellFormed(o) ==
    /\ o.isValid \in BOOLEAN
    /\ o.cardType \in Networks
    /\ o.errors \in Seq(STRING)
    /\ Len(o.formattedNumber) >= 0
    /\ Len(o.maskedNumber) >= 0

\* C11: validatePaymentInfo never throws: whatever the card number and
\* the CVV are, missing or not a string included, it returns a result
\* object with all its fields, and isValid is false when the card number
\* or the CVV is not a string.
C11_NeverThrows ==
    call = "validatePaymentInfo" =>
        /\ ret.kind = "object"
        /\ WellFormed(ret.obj)
        /\ (numberType # "string" \/ cvvType # "string") => ~ret.obj.isValid

-----------------------------------------------------------------------------
(* Numbers of no known network *)

\* C12: the network Unknown never invalidates a card by itself: for a card
\* number classified Unknown, validatePaymentInfo returns isValid true
\* whenever the checksum, a 3-digit CVV and the expiration pass, and every
\* entry of errors is the reason of a check that failed, none is there for
\* the classification.
C12_UnknownNeverInvalidates ==
    (/\ call = "validatePaymentInfo"
     /\ identifyCardType(cardNumber) = "Unknown") =>
        LET numberOk == validateCardNumber(cardNumber)
            cvvOk == Len(StripNonDigits(cvv)) = 3
            dateOk == validateExpirationDate(expMonth, expYear)
            errors == ret.obj.errors
        IN  /\ (numberOk /\ cvvOk /\ dateOk) => ret.obj.isValid
            /\ \A i \in 1..Len(errors) :
                   \/ errors[i] = InvalidCardMsg /\ ~numberOk
                   \/ errors[i] = CvvReason("Unknown") /\ ~cvvOk
                   \/ errors[i] = InvalidExpMsg /\ ~dateOk

C12_Witness ==
    /\ call = "validatePaymentInfo"
    /\ ret.obj.cardType = "Unknown"
    /\ Len(Cleaned) = 16
    /\ Len(cvv) = 3
    /\ ret.obj.isValid
    /\ ret.obj.errors = <<>>

-----------------------------------------------------------------------------
(* The reason given for a failed expiration check *)

\* an integer month 1..12 of a year that is over, or of the current year
\* and before the current month
IsPastDate(month, year) ==
    /\ IsIntegerField(month)
    /\ IsIntegerField(year)
    /\ IntegerOf(month) >= 1
    /\ IntegerOf(month) <= 12
    /\ LET y == ResolvedYear(IntegerOf(year))
       IN  y < currentYear \/ (y = currentYear /\ IntegerOf(month) < currentMonth)

\* the reason of the expiration check is pushed last
ExpirationReason(errors) == errors[Len(errors)]

\* C13: the reason given for a failed expiration check tells the two kinds
\* of failure apart: a date in the past gets a reason saying that the card
\* has expired, which is not the reason the same form gets with month 13, a
\* date that is not one.
C13_ExpiredReasonDiffers ==
    (/\ call = "validatePaymentInfo"
     /\ IsPastDate(expMonth, expYear)) =>
        LET malformed == validatePaymentInfo(cardNumber, cvv, JsNumber(13),
                                             expYear)
        IN  ExpirationReason(ret.obj.errors)
                # ExpirationReason(malformed.errors)

-----------------------------------------------------------------------------
(* Classification while typing *)

\* C14: while digits are typed one after the other, once identifyCardType
\* has returned a network other than Unknown it returns that network after
\* every further digit: the classification never changes to another network
\* and never goes back to Unknown.
C14_ClassificationStable ==
    [][(call' = "input" /\ hint.cardType # "Unknown")
           => hint'.cardType = hint.cardType]_vars

C14_Witness ==
    /\ call = "input"
    /\ hint.cardType = "Discover"
    /\ Take(Cleaned, 3) = D(<<6, 2, 2>>)
    /\ Len(Cleaned) = 16

-----------------------------------------------------------------------------
(* Formatting and masking *)

\* the digits in blocks of 4 from the left: every fifth character is a
\* space, the others are the digits in order, and the last is a digit
InBlocksOf4(out, digits) ==
    /\ Len(out) = IF digits = <<>> THEN 0
                  ELSE Len(digits) + ((Len(digits) - 1) \div 4)
    /\ \A j \in 1..Len(out) :
           IF j % 5 = 0 THEN out[j] = " " ELSE out[j] = digits[j - (j \div 5)]

\* C15: formatCardNumber writes a 15-digit American Express number as its
\* first 4, next 6 and last 5 digits separated by single spaces, and a
\* number of any other network, whatever its length, as blocks of 4 digits
\* from the left separated by single spaces, the last block of 1 to 4
\* digits, with no space before or after.
C15_GroupedByNetwork ==
    call = "formatCardNumber" =>
        IF identifyCardType(cardNumber) = "American Express"
        THEN Len(Cleaned) = 15 =>
                 ret.text = SubSeq(Cleaned, 1, 4) \o <<" ">>
                            \o SubSeq(Cleaned, 5, 10) \o <<" ">>
                            \o SubSeq(Cleaned, 11, 15)
        ELSE InBlocksOf4(ret.text, Cleaned)

C15_Witness ==
    /\ call = "formatCardNumber"
    /\ identifyCardType(cardNumber) = "American Express"
    /\ Len(Cleaned) = 15
    /\ Len(ret.text) = 17
    /\ ret.text[5] = " "
    /\ ret.text[12] = " "

WithoutSpaces(s) == SelectSeq(s, LAMBDA c : c # " ")

\* C16: removing the spaces from what formatCardNumber returns gives the
\* cleaned digits of its input, for every network and every length, an
\* American Express number of fewer or more than 15 digits included.
C16_FormatRoundTrip ==
    call = "formatCardNumber" => WithoutSpaces(ret.text) = Cleaned

C16_Witness ==
    /\ call = "formatCardNumber"
    /\ identifyCardType(cardNumber) = "American Express"
    /\ Len(Cleaned) = 17
    /\ Len(ret.text) = 19

\* the masked prefix of a reference number
ReferenceMask == maskCardNumber(D(<<0, 0, 0, 0, 0, 0, 0, 0, 0, 0, 0, 0, 0>>))

\* C17: for a card number of 13 to 19 digits, maskCardNumber returns a
\* string that ends with the last 4 digits of the cleaned number and holds
\* no other digit: what precedes them is the same prefix for every input.
C17_MaskShowsLast4Only ==
    (/\ call = "maskCardNumber"
     /\ Len(Cleaned) >= 13
     /\ Len(Cleaned) <= 19) =>
        LET n == Len(ret.text)
        IN  /\ n >= 4
            /\ SubSeq(ret.text, n - 3, n) = SubSeq(Cleaned, Len(Cleaned) - 3,
                                                   Len(Cleaned))
            /\ \A j \in 1..(n - 4) : ret.text[j] \notin DigitChars
            /\ SubSeq(ret.text, 1, n - 4)
                   = SubSeq(ReferenceMask, 1, Len(ReferenceMask) - 4)

C17_Witness ==
    /\ call = "maskCardNumber"
    /\ Len(Cleaned) = 19
    /\ Len(ret.text) = 19
    /\ SubSeq(ret.text, 16, 19) = SubSeq(Cleaned, 16, 19)

-----------------------------------------------------------------------------
(* The published test numbers *)

Vector4532 == D(<<4, 5, 3, 2, 0, 1, 5, 1, 1, 2, 8, 3, 0, 3, 6, 6>>)

Vector5425 == D(<<5, 4, 2, 5, 2, 3, 3, 4, 3, 0, 1, 0, 9, 9, 0, 3>>)

Vector3742 == D(<<3, 7, 4, 2, 4, 5, 4, 5, 5, 4, 0, 0, 1, 2, 6>>)

Vector6011 == D(<<6, 0, 1, 1, 0, 0, 0, 9, 9, 1, 3, 0, 0, 0, 0, 9>>)

Vector1234 == D(<<1, 2, 3, 4, 5, 6, 7, 8, 9, 0, 1, 2, 3, 4, 5, 6>>)

\* C18: 4532015112830366, 5425233430109903, 374245455400126 and
\* 6011000991300009 pass validateCardNumber and are classified Visa,
\* Mastercard, American Express and Discover in this order;
\* 1234567890123456 fails validateCardNumber.
C18_TestVectors ==
    /\ call = "validateCardNumber" =>
           /\ cardNumber \in {Vector4532, Vector5425, Vector3742, Vector6011}
                  => ret.bool
           /\ cardNumber = Vector1234 => ~ret.bool
    /\ call = "identifyCardType" =>
           /\ cardNumber = Vector4532 => ret.str = "Visa"
           /\ cardNumber = Vector5425 => ret.str = "Mastercard"
           /\ cardNumber = Vector3742 => ret.str = "American Express"
           /\ cardNumber = Vector6011 => ret.str = "Discover"

C18_Witness ==
    /\ call = "validateCardNumber"
    /\ cardNumber = Vector3742
    /\ cardNumber \in TestCards
    /\ ret.bool

-----------------------------------------------------------------------------
(* What the result tells about the other fields *)

\* the dates of the second call: a good one, one that is none, a past one
OtherDates ==
    {<<GoodMonth, GoodYear>>, <<JsNumber(13), JsUndefined>>,
     <<JsString(D(<<0, 1>>)), JsString(IntToStr(FirstYear - 1))>>}

\* C19: network, formattedNumber and maskedNumber of the result of
\* validatePaymentInfo depend on the card number only: a second call with
\* the same card number and any other CVV, month and year returns the same
\* three values, and the network is what identifyCardType returns for the
\* card number, also when the checksum fails.
C19_CardFieldsFromNumberOnly ==
    call = "validatePaymentInfo" =>
        /\ ret.obj.cardType = identifyCardType(cardNumber)
        /\ \A code \in FormCvvs, date \in OtherDates :
               LET other == validatePaymentInfo(cardNumber, code, date[1],
                                                date[2])
               IN  /\ other.cardType = ret.obj.cardType
                   /\ other.formattedNumber = ret.obj.formattedNumber
                   /\ other.maskedNumber = ret.obj.maskedNumber

C19_Witness ==
    /\ call = "validatePaymentInfo"
    /\ ~validateCardNumber(cardNumber)
    /\ ret.obj.cardType = "American Express"
    /\ ret.obj.errors # <<>>
    /\ Len(ret.obj.formattedNumber) = 17

-----------------------------------------------------------------------------
(* Interleaved invocations *)

\* C20: invocations of validatePaymentInfo do not interfere: however their
\* statements interleave, the result a call has returned is, and stays
\* while other calls run, the result its own arguments give when the
\* function runs alone at the same date, errors and every other field.
C20_CallsDoNotInterfere ==
    \A p \in Callers :
        frames[p].pc = "returned" =>
            frames[p].result = validatePaymentInfo(frames[p].number,
                                                   frames[p].code,
                                                   frames[p].month,
                                                   frames[p].year)

C20_Witness ==
    /\ frames[1].pc = "returned"
    /\ frames[1].result.isValid
    /\ frames[2].pc = "return"
    /\ Len(frames[2].errors) = 3

-----------------------------------------------------------------------------
(* Entering a card number *)

\* C30: every card number of 13 to 19 digits can be entered: after its
\* digits were keyed one at a time into the card-number field, the digits
\* of the field value are the number keyed.
C30_KeyedNumberEntered ==
    (Len(keyed) >= 13 /\ Len(keyed) <= 19) => Cleaned = keyed

-----------------------------------------------------------------------------
(* Submitting the payment form *)

AnyFieldEmpty ==
    \/ cardNumber = <<>>
    \/ cvv = <<>>
    \/ expMonth.s = <<>>
    \/ expYear.s = <<>>
    \/ cardName = <<>>

\* C21: a payment is never processed for invalid input: when one of the
\* five fields is empty or validatePaymentInfo returns isValid false,
\* onPaymentSuccess is not invoked (no request leaves the page), no order
\* is created, the payment modal stays open and the cart stays as it was.
C21_InvalidInputNotProcessed ==
    (AnyFieldEmpty
     \/ ~validatePaymentInfo(cardNumber, cvv, expMonth, expYear).isValid) =>
        /\ stage = "form"
        /\ sent = <<>>
        /\ orders = 0
        /\ modal = "open"
        /\ cart \in PayCarts
        /\ cart = serverCart
        /\ badge = getItemCount(cart)

C21_Witness ==
    /\ ~AnyFieldEmpty
    /\ StripNonDigits(cardNumber) = TestInvalid
    /\ Note("error", <<InvalidCardMsg>>) \in notes
    /\ modal = "open"
    /\ sent = <<>>

\* C22: after a payment whose order was created, the cart is cleared: once
\* processOrder has finished, the cart of cartService is empty and the cart
\* badge shows 0.
C22_CartClearedAfterOrder ==
    (stage = "done" /\ orders > 0) => (cart = <<>> /\ badge = 0)

\* C27: payment success is reported only for a created order: the payment
\* modal is closed and 'Payment successful' is shown only if createOrder
\* returned success; otherwise the modal stays open, the pay button is
\* enabled again with its text and no success notification is shown.
C27_SuccessOnlyForCreatedOrder ==
    /\ (SuccessNote \in notes \/ modal = "closed") => orders > 0
    /\ (stage = "done" /\ orders = 0) =>
           /\ modal = "open"
           /\ payButton = PayButton
           /\ SuccessNote \notin notes

\* C28: for a card number that passed validation in handlePaymentSubmit,
\* lastFourDigits of the payment data is four digit characters, the last
\* four digits of the cleaned card number, which are also the end of
\* maskedNumber.
C28_LastFourDigits ==
    stage # "form" =>
        /\ Len(paymentData.lastFourDigits) = 4
        /\ IsDigitString(paymentData.lastFourDigits)
        /\ paymentData.lastFourDigits = SliceLast(Cleaned, 4)
        /\ paymentData.lastFourDigits = SliceLast(paymentData.maskedNumber, 4)

-----------------------------------------------------------------------------
(* Quantities in the cart *)

\* C24: the quantity of a cart item cannot go below 1: after any sequence
\* of add-to-cart, increase, decrease and remove, every item in the cart
\* has a quantity of at least 1; a decrease of an item of quantity 1
\* leaves no item of quantity 0 or less.
C24_QuantityAtLeastOne ==
    \A i \in 1..Len(cart) : cart[i].quantity >= 1

C24_Witness ==
    /\ Len(cart) = 2
    /\ cart[1].quantity = 1
    /\ cart[2].quantity = MaxQuantity
    /\ badge = MaxQuantity + 1

-----------------------------------------------------------------------------
(* The session *)

\* C26: an invalid token logs the user out: when a getCurrentUser whose
\* GET /auth/me request failed completes, it returns null, the token is
\* gone from storage (isAuthenticated() is false) and currentUser is null.
C26_FailedMeLogsOut ==
    [][\A i \in 1..Len(authCalls) :
           (/\ authCalls[i].op = "me"
            /\ authCalls[i].pos = "await"
            /\ authCalls'[i].pos = "returned"
            /\ authCalls'[i].failed) =>
               /\ authCalls'[i].result = ""
               /\ token' = ""
               /\ currentUser' = ""]_vars

C26_Witness ==
    \E i \in 1..Len(authCalls) :
        /\ authCalls[i].op = "me"
        /\ authCalls[i].pos = "returned"
        /\ authCalls[i].failed
        /\ authCalls[i].user = "u1"
        /\ token = ""
        /\ currentUser = ""

\* C29: under every interleaving of login, register, logout and
\* getCurrentUser, responses that arrive after a logout included, a token
\* is stored whenever currentUser is not null.
C29_UserOnlyWithToken ==
    currentUser # "" => token # ""

GetCartReturns(i) ==
    /\ authCalls[i].op = "getCart"
    /\ authCalls[i].pos = "await"
    /\ authCalls'[i].pos = "returned"

NoAuthenticatedClear ==
    \A k \in 1..Len(sent) : sent[k].path = "/cart/clear" => ~sent[k].auth

C25_NoDuplicateEmail ==
    \A i \in 1..Len(regs) :
        (regs[i].pos = "done" /\ IsYorkEmail(regs[i].email)) =>
            /\ regs[i].status \in {201, 409}
            /\ regs[i].status = 409 => regs[i].error = "Email already registered"
            /\ regs[i].status = 201 => toLowerCase(regs[i].email) \in users
            /\ \A j \in 1..Len(regs) :
                   (/\ j # i
                    /\ regs[j].status = 201
                    /\ toLowerCase(regs[j].email) = toLowerCase(regs[i].email))
                       => regs[i].status = 409


=============================================================================
